---- MODULE Spec2Model ----
(***************************************************************************)
(* Graph Visualizer: the execution controller (useAlgorithmExecution), the *)
(* graph state manager (useGraphState) and the input validator             *)
(* (validateEdgeInput / validateGraphInput).                               *)
(*                                                                         *)
(* JavaScript values are tagged tuples: <<"undefined">>, <<"string", s>>,  *)
(* <<"number", s>>, <<"object", s>>.  Texts are TLA+ strings, read one     *)
(* character at a time with SubSeq.                                        *)
(***************************************************************************)
EXTENDS Integers, Sequences, FiniteSets, TLC

VARIABLES
    isRunning,        \* useState(false), Button.jsx:211
    error,            \* useState(''),    Button.jsx:212
    result,           \* useState(''),    Button.jsx:213
    resultReady,      \* useState(false), Button.jsx:214
    speedrunRef,      \* useRef(''),      Button.jsx:215 (its .current)
    closureIsRunning, \* the isRunning captured by the executeAlgorithm
                      \* callback of the last render (useCallback deps, :261)
    inflight,         \* algorithm functions awaited at Button.jsx:239
    nextRun,          \* number of accepted executeAlgorithm calls so far
    lastOp,           \* the last operation performed and its outcome
    nodes,            \* useState([]),    useGraphState.js:12
    links,            \* useState([]),    useGraphState.js:13
    adjList,          \* useState({}),    useGraphState.js:14
    isDirected,       \* useState(GRAPH_TYPES.UNDIRECTED),  useGraphState.js:17
    isWeighted,       \* useState(WEIGHT_TYPES.UNWEIGHTED), useGraphState.js:18
    inputText,        \* useState(''),    useGraphState.js:19
    inputErrors,      \* useState([]),    useGraphState.js:22
    isValidGraph,     \* useState(false), useGraphState.js:23
    parserInvoked,    \* the last derivation of the state called
                      \* parseGraphInput (useGraphState.js:47)
    effectPending,    \* a dependency of the effect at useGraphState.js:63-74
                      \* changed and the effect has not run yet
    request           \* the last request to run an algorithm: its kind, its
                      \* source node and the answer of canRunAlgorithm

ctlVars == <<isRunning, error, result, resultReady, speedrunRef,
             closureIsRunning, inflight, nextRun, lastOp>>

graphVars == <<nodes, links, adjList, isDirected, isWeighted, inputText,
               inputErrors, isValidGraph, parserInvoked, effectPending>>

vars == <<ctlVars, graphVars, request>>

-----------------------------------------------------------------------------
(* Bounds *)

\* executeAlgorithm calls accepted in one behaviour
MaxCalls == 3


-----------------------------------------------------------------------------
(* JavaScript values *)

Undefined == <<"undefined">>
Null == <<"null">>
Str(s) == <<"string", s>>
Num(s) == <<"number", s>>
Obj(s) == <<"object", s>>

\* ToBoolean, as used by `if (x)`, `!x` and `a || b`
Truthy(v) ==
    CASE v[1] = "undefined" -> FALSE
      [] v[1] = "null"      -> FALSE
      [] v[1] = "string"    -> v[2] # ""
      [] v[1] = "number"    -> v[2] \notin {"0", "NaN"}
      [] OTHER              -> TRUE

\* a || b
OrElse(a, b) == IF Truthy(a) THEN a ELSE b

-----------------------------------------------------------------------------
(* constants (Button.jsx:140-179) *)

SPEED_COMMANDS == {"fast", "skip", "normal"}

ALGORITHM_ERROR == "An error occurred while running the algorithm."
MISSING_SOURCE == "Please specify a start node for this algorithm."
EMPTY_GRAPH == "Please add some edges to create a graph."
INVALID_INPUT == "Invalid input format. Please check your edge definitions."

-----------------------------------------------------------------------------
(* Texts *)

\* the i-th character of s
Char(s, i) == SubSeq(s, i, i)

\* what \s matches and String.prototype.trim strips
IsSpace(ch) == ch \in {" ", "\t", "\n", "\r"}

RECURSIVE TrimStart(_)
TrimStart(s) ==
    IF s # "" /\ IsSpace(Char(s, 1))
    THEN TrimStart(SubSeq(s, 2, Len(s)))
    ELSE s

RECURSIVE TrimEnd(_)
TrimEnd(s) ==
    IF s # "" /\ IsSpace(Char(s, Len(s)))
    THEN TrimEnd(SubSeq(s, 1, Len(s) - 1))
    ELSE s

\* String.prototype.trim
Trim(s) == TrimStart(TrimEnd(s))

\* the first position of s holding a character of chars, 0 if there is none
IndexOfAny(s, chars) ==
    IF \E i \in 1..Len(s) : Char(s, i) \in chars
    THEN CHOOSE i \in 1..Len(s) :
            /\ Char(s, i) \in chars
            /\ \A j \in 1..(i - 1) : Char(s, j) \notin chars
    ELSE 0

\* s.split('\n')
RECURSIVE SplitLines(_)
SplitLines(s) ==
    LET i == IndexOfAny(s, {"\n"}) IN
    IF i = 0
    THEN <<s>>
    ELSE <<SubSeq(s, 1, i - 1)>> \o SplitLines(SubSeq(s, i + 1, Len(s)))

\* t cut at position i: the text before it, and the tokens of the rest
RECURSIVE Tokens(_)
TokensFrom(t, i) ==
    IF t = "" THEN <<>>
    ELSE IF i = 0 THEN <<t>>
    ELSE <<SubSeq(t, 1, i - 1)>> \o Tokens(SubSeq(t, i, Len(t)))

TokensOf(t) == TokensFrom(t, IndexOfAny(t, {" ", "\t", "\n", "\r"}))

\* the maximal runs of non-space characters of s, in order
Tokens(s) == TokensOf(TrimStart(s))

Digits == {"0", "1", "2", "3", "4", "5", "6", "7", "8", "9"}

Letters ==
    {"a", "b", "c", "d", "e", "f", "g", "h", "i", "j", "k", "l", "m",
     "n", "o", "p", "q", "r", "s", "t", "u", "v", "w", "x", "y", "z",
     "A", "B", "C", "D", "E", "F", "G", "H", "I", "J", "K", "L", "M",
     "N", "O", "P", "Q", "R", "S", "T", "U", "V", "W", "X", "Y", "Z"}

AllIn(s, chars) == \A i \in 1..Len(s) : Char(s, i) \in chars

NumberTextAt(s, dot) ==
    IF dot = 0
    THEN s # "" /\ AllIn(s, Digits)
    ELSE /\ dot > 1 /\ dot < Len(s)
         /\ AllIn(SubSeq(s, 1, dot - 1), Digits)
         /\ AllIn(SubSeq(s, dot + 1, Len(s)), Digits)

\* /^\d+(?:\.\d+)?$/
IsNumberText(s) == NumberTextAt(s, IndexOfAny(s, {"."}))

DigitValue(ch) ==
    CASE ch = "0" -> 0 [] ch = "1" -> 1 [] ch = "2" -> 2 [] ch = "3" -> 3
      [] ch = "4" -> 4 [] ch = "5" -> 5 [] ch = "6" -> 6 [] ch = "7" -> 7
      [] ch = "8" -> 8 [] ch = "9" -> 9

RECURSIVE NatOf(_)
NatOf(s) ==
    IF s = "" THEN 0
    ELSE 10 * NatOf(SubSeq(s, 1, Len(s) - 1)) + DigitValue(Char(s, Len(s)))

RECURSIVE StripZeros(_)
StripZeros(s) ==
    IF s # "" /\ Char(s, Len(s)) = "0"
    THEN StripZeros(SubSeq(s, 1, Len(s) - 1))
    ELSE s

\* parseFloatAt with the digits after the point dropped
parseFloatAt_intOnly(s, dot) ==
    [int |-> NatOf(IF dot = 0 THEN s ELSE SubSeq(s, 1, dot - 1)), frac |-> ""]

parseFloatAt(s, dot) ==
    IF dot = 0
    THEN [int |-> NatOf(s), frac |-> ""]
    ELSE [int |-> NatOf(SubSeq(s, 1, dot - 1)),
          frac |-> StripZeros(SubSeq(s, dot + 1, Len(s)))]

\* parseFloat of a text matching \d+(?:\.\d+)?: the number, as its integer
\* part and its fraction digits without trailing zeros
parseFloat(s) == parseFloatAt(s, IndexOfAny(s, {"."}))

-----------------------------------------------------------------------------
(* VALIDATION_PATTERNS (Button.jsx:166-170): what match() returns, <<>> for *)
(* null and the captures otherwise                                         *)

\* /^[a-zA-Z0-9_-]+$/
NODE_ID(s) == s # "" /\ AllIn(s, Letters \cup Digits \cup {"_", "-"})

UnweightedCaptures(t) ==
    IF Len(t) = 2 THEN <<t[1], t[2], Undefined>> ELSE <<>>

WeightedCaptures(t) ==
    IF Len(t) = 3 /\ IsNumberText(t[3]) THEN <<t[1], t[2], t[3]>> ELSE <<>>

\* /^\s*(\S+)\s+(\S+)\s*$/
EDGE_UNWEIGHTED(s) == UnweightedCaptures(Tokens(s))

\* /^\s*(\S+)\s+(\S+)\s+(\d+(?:\.\d+)?)\s*$/
EDGE_WEIGHTED(s) == WeightedCaptures(Tokens(s))

-----------------------------------------------------------------------------
(* The validator (unnamed/part_001) *)

\* part_001:12-14
isValidNodeId(nodeId) == NODE_ID(nodeId)

Invalid(message) == [isValid |-> FALSE, error |-> message]

\* validateMatch without the test of source === target
validateMatch_noSelfLoop(trimmed, match, weighted) ==
    IF trimmed = "" THEN Invalid("Edge cannot be empty")
    ELSE IF match = <<>>
    THEN Invalid(IF weighted
                 THEN "Invalid weighted edge format. Expected: \"node1 node2 weight\""
                 ELSE "Invalid edge format. Expected: \"node1 node2\"")
    ELSE IF ~isValidNodeId(match[1]) \/ ~isValidNodeId(match[2])
    THEN Invalid("Invalid node ID format")
    ELSE [isValid |-> TRUE, source |-> match[1], target |-> match[2],
          weight |-> IF weighted THEN parseFloat(match[3]) ELSE Undefined]

\* part_001:25-55, with trimmed and match computed
validateMatch(trimmed, match, weighted) ==
    IF trimmed = "" THEN Invalid("Edge cannot be empty")
    ELSE IF match = <<>>
    THEN Invalid(IF weighted
                 THEN "Invalid weighted edge format. Expected: \"node1 node2 weight\""
                 ELSE "Invalid edge format. Expected: \"node1 node2\"")
    ELSE IF ~isValidNodeId(match[1]) \/ ~isValidNodeId(match[2])
    THEN Invalid("Invalid node ID format")
    ELSE IF match[1] = match[2]
    THEN Invalid("Self-loops are not supported")
    \* isNaN(weight) and parseFloat(weight) < 0 are false for every text
    \* the weighted pattern lets through
    ELSE [isValid |-> TRUE, source |-> match[1], target |-> match[2],
          weight |-> IF weighted THEN parseFloat(match[3]) ELSE Undefined]

\* part_001:29-30
matchEdge(trimmed, weighted) ==
    IF weighted THEN EDGE_WEIGHTED(trimmed) ELSE EDGE_UNWEIGHTED(trimmed)

validateTrimmed(trimmed, weighted) ==
    validateMatch(trimmed, matchEdge(trimmed, weighted), weighted)

\* part_001:22-56
validateEdgeInput(edgeString, weighted) ==
    validateTrimmed(Trim(edgeString), weighted)

TrimEach(lines) == [i \in 1..Len(lines) |-> Trim(lines[i])]

\* lines.filter(Boolean) after map(line => line.trim()), part_001:69
NonBlankLines(input) ==
    SelectSeq(TrimEach(SplitLines(Trim(input))), LAMBDA line : line # "")

\* addEdge with only the key of the same ordering looked up
addEdge_sameOrderOnly(acc, validation, label, edgeKey, reverseEdgeKey) ==
    IF edgeKey \in acc.edgeSet
    THEN [acc EXCEPT !.errors = Append(@, label \o "Duplicate edge detected")]
    ELSE [acc EXCEPT
             !.edgeSet = @ \cup {edgeKey},
             !.edges = Append(@, [source |-> validation.source,
                                  target |-> validation.target,
                                  weight |-> validation.weight])]

\* part_001:81-90, with the edge keys computed
addEdge(acc, validation, label, edgeKey, reverseEdgeKey) ==
    IF edgeKey \in acc.edgeSet \/ reverseEdgeKey \in acc.edgeSet
    THEN [acc EXCEPT !.errors = Append(@, label \o "Duplicate edge detected")]
    ELSE [acc EXCEPT
             !.edgeSet = @ \cup {edgeKey},
             !.edges = Append(@, [source |-> validation.source,
                                  target |-> validation.target,
                                  weight |-> validation.weight])]

\* part_001:77-91, with the line validated
addLine(acc, validation, label) ==
    IF ~validation.isValid
    THEN [acc EXCEPT !.errors = Append(@, label \o validation.error)]
    ELSE addEdge(acc, validation, label,
                 validation.source \o "-" \o validation.target,
                 validation.target \o "-" \o validation.source)

\* the body of lines.forEach, part_001:74-92: acc holds errors, edges and
\* edgeSet
validateLine(acc, line, index, weighted) ==
    addLine(acc, validateEdgeInput(line, weighted),
            "Line " \o ToString(index + 1) \o ": ")

\* lines.forEach over the first n lines
RECURSIVE validateLines(_, _, _)
validateLines(lines, n, weighted) ==
    IF n = 0
    THEN [errors |-> <<>>, edges |-> <<>>, edgeSet |-> {}]
    ELSE validateLine(validateLines(lines, n - 1, weighted),
                      lines[n], n - 1, weighted)

\* part_001:94-98
validationResult(acc) ==
    [isValid |-> acc.errors = <<>>, errors |-> acc.errors,
     edges |-> acc.edges]

validateAll(lines, weighted) ==
    validationResult(validateLines(lines, Len(lines), weighted))

\* validateGraphInput with the test of input.trim() left out
validateGraphInput_noTrim(input, weighted) ==
    IF input = ""
    THEN [isValid |-> FALSE, errors |-> <<EMPTY_GRAPH>>, edges |-> <<>>]
    ELSE validateAll(NonBlankLines(input), weighted)

\* part_001:64-99
validateGraphInput(input, weighted) ==
    IF input = "" \/ Trim(input) = ""
    THEN [isValid |-> FALSE, errors |-> <<EMPTY_GRAPH>>, edges |-> <<>>]
    ELSE validateAll(NonBlankLines(input), weighted)

-----------------------------------------------------------------------------
(* The graph parser (Hooks/DataFetch, imported at useGraphState.js:2)       *)

\* {} as an adjacency list
EmptyAdjList == [id \in {} |-> <<>>]

\* the edge of one line, from its tokens
edgeOf(t, weighted) ==
    [source |-> t[1], target |-> t[2],
     weight |-> IF weighted /\ Len(t) > 2 /\ IsNumberText(t[3])
                THEN parseFloat(t[3]) ELSE Undefined]

edgesOf(lines, weighted) ==
    [i \in 1..Len(lines) |-> edgeOf(Tokens(lines[i]), weighted)]

\* the edges of the text, one per non-blank line
parsedEdges(input, weighted) == edgesOf(NonBlankLines(input), weighted)

Range(ids) == {ids[i] : i \in 1..Len(ids)}

AppendNew(ids, id) == IF id \in Range(ids) THEN ids ELSE Append(ids, id)

\* the identifiers of the endpoints, in order of first appearance
RECURSIVE nodeIds(_, _)
nodeIds(edges, n) ==
    IF n = 0 THEN <<>>
    ELSE AppendNew(AppendNew(nodeIds(edges, n - 1), edges[n].source),
                   edges[n].target)

\* what edge e adds to the neighbours of id
entry(e, id, directed) ==
    IF e.source = id
    THEN <<[node |-> e.target, weight |-> e.weight]>>
    ELSE IF ~directed /\ e.target = id
    THEN <<[node |-> e.source, weight |-> e.weight]>>
    ELSE <<>>

\* the neighbours of id among the first n edges, in edge order
RECURSIVE neighbours(_, _, _, _)
neighbours(edges, n, id, directed) ==
    IF n = 0 THEN <<>>
    ELSE neighbours(edges, n - 1, id, directed) \o entry(edges[n], id, directed)

graphOf(edges, ids, directed) ==
    [nodes |-> [i \in 1..Len(ids) |-> [id |-> ids[i]]],
     links |-> edges,
     adjList |-> [id \in Range(ids) |->
                     neighbours(edges, Len(edges), id, directed)]]

graphOfEdges(edges, directed) ==
    graphOf(edges, nodeIds(edges, Len(edges)), directed)

parseGraphInput(input, directed, weighted) ==
    graphOfEdges(parsedEdges(input, weighted), directed)

-----------------------------------------------------------------------------
(* Inputs of the execution controller *)

\* what an algorithm function may return: nothing, an empty or a non-empty
\* text, zero, a result object
ReturnValues == {Undefined, Str(""), Num("0"), Str("A -> B"), Obj("mst")}

\* options.errorMessage: absent, empty, given
ErrorMessages == {Undefined, Str(""), Str("DFS failed")}

-----------------------------------------------------------------------------
(* useAlgorithmExecution *)

\* the hook's state as one record, so that the pieces of executeAlgorithm
\* are functions from state to state
Ctl == [isRunning |-> isRunning, error |-> error, result |-> result,
        resultReady |-> resultReady, speedrunRef |-> speedrunRef]

SetCtl(c) ==
    /\ isRunning' = c.isRunning
    /\ error' = c.error
    /\ result' = c.result
    /\ resultReady' = c.resultReady
    /\ speedrunRef' = c.speedrunRef

\* "Reset state", Button.jsx:229-233
ResetState(c) ==
    [c EXCEPT !.error = Str(""), !.result = Str(""),
              !.resultReady = FALSE, !.isRunning = TRUE]

\* HandleResult with setResultReady(true) left out
HandleResult_noReady(c, algorithmResult) ==
    IF Truthy(algorithmResult)
    THEN [c EXCEPT !.result = algorithmResult]
    ELSE c

\* "Handle result if algorithm returns one", Button.jsx:244-248
HandleResult(c, algorithmResult) ==
    IF Truthy(algorithmResult)
    THEN [c EXCEPT !.result = algorithmResult, !.resultReady = TRUE]
    ELSE c

\* catch block, Button.jsx:253-255
CatchError(c, errorMessage) ==
    [c EXCEPT !.error = OrElse(errorMessage, Str(ALGORITHM_ERROR))]

\* Finally with the reset of the speed signal left out
Finally_keepSpeed(c) == [c EXCEPT !.isRunning = FALSE]

\* finally block, Button.jsx:256-260
Finally(c) == [c EXCEPT !.isRunning = FALSE, !.speedrunRef = ""]

\* one run from the return of algorithmFn to the end of executeAlgorithm
onReturn(c, algorithmResult) == Finally(HandleResult(c, algorithmResult))

\* one run from the throw of algorithmFn to the end of executeAlgorithm
onThrow(c, errorMessage) == Finally(CatchError(c, errorMessage))

RunIds == {r.id : r \in inflight}
RunOf(id) == CHOOSE r \in inflight : r.id = id

Op(name, run, value) == [op |-> name, run |-> run, value |-> value]

\* executeAlgorithm with the state reset placed before the guard
executeAlgorithm_resetFirst(errorMessage) ==
    IF closureIsRunning
    THEN /\ SetCtl(ResetState(Ctl))
         /\ lastOp' = Op("rejected", 0, Undefined)
         /\ UNCHANGED <<closureIsRunning, inflight, nextRun>>
    ELSE /\ nextRun < MaxCalls
         /\ SetCtl(ResetState(Ctl))
         /\ nextRun' = nextRun + 1
         /\ inflight' =
               {[r EXCEPT !.overlapped = TRUE] : r \in inflight}
               \cup {[id |-> nextRun + 1, errorMessage |-> errorMessage,
                      overlapped |-> inflight # {}]}
         /\ lastOp' = Op("invoked", nextRun + 1, Undefined)
         /\ UNCHANGED closureIsRunning

\* executeAlgorithm up to its await: the guard reads the isRunning of the
\* render that created the callback; an accepted call resets the state and
\* invokes algorithmFn (Button.jsx:223-239)
executeAlgorithm(errorMessage) ==
    IF closureIsRunning
    THEN \* console.warn('Algorithm is already running'); return
         /\ lastOp' = Op("rejected", 0, Undefined)
         /\ UNCHANGED <<isRunning, error, result, resultReady, speedrunRef,
                        closureIsRunning, inflight, nextRun>>
    ELSE /\ nextRun < MaxCalls
         /\ SetCtl(ResetState(Ctl))
         /\ nextRun' = nextRun + 1
         /\ inflight' =
               {[r EXCEPT !.overlapped = TRUE] : r \in inflight}
               \cup {[id |-> nextRun + 1, errorMessage |-> errorMessage,
                      overlapped |-> inflight # {}]}
         /\ lastOp' = Op("invoked", nextRun + 1, Undefined)
         /\ UNCHANGED closureIsRunning

\* the awaited algorithm function returns algorithmResult: the rest of the
\* try block and the finally block (Button.jsx:239-260)
AlgorithmReturns(id, algorithmResult) ==
    /\ id \in RunIds
    /\ SetCtl(onReturn(Ctl, algorithmResult))
    /\ inflight' = inflight \ {RunOf(id)}
    /\ lastOp' = Op("returned", id, algorithmResult)
    /\ UNCHANGED <<closureIsRunning, nextRun>>

\* the awaited algorithm function throws or its promise rejects: the catch
\* block and the finally block (Button.jsx:253-260)
AlgorithmThrows(id) ==
    /\ id \in RunIds
    /\ SetCtl(onThrow(Ctl, RunOf(id).errorMessage))
    /\ inflight' = inflight \ {RunOf(id)}
    /\ lastOp' = Op("threw", id, Undefined)
    /\ UNCHANGED <<closureIsRunning, nextRun>>

\* setSpeed with 'skip' also ending the running state
setSpeed_skipStops(speed) ==
    /\ speedrunRef' = speed
    /\ isRunning' = (isRunning /\ speed # "skip")
    /\ lastOp' = Op("setSpeed", 0, Str(speed))
    /\ UNCHANGED <<error, result, resultReady,
                   closureIsRunning, inflight, nextRun>>

\* Button.jsx:267-269
setSpeed(speed) ==
    /\ speedrunRef' = speed
    /\ lastOp' = Op("setSpeed", 0, Str(speed))
    /\ UNCHANGED <<isRunning, error, result, resultReady,
                   closureIsRunning, inflight, nextRun>>

\* Button.jsx:274-276
clearError ==
    /\ error' = Str("")
    /\ lastOp' = Op("clearError", 0, Undefined)
    /\ UNCHANGED <<isRunning, result, resultReady, speedrunRef,
                   closureIsRunning, inflight, nextRun>>

\* Button.jsx:281-284
clearResult ==
    /\ result' = Str("")
    /\ resultReady' = FALSE
    /\ lastOp' = Op("clearResult", 0, Undefined)
    /\ UNCHANGED <<isRunning, error, speedrunRef,
                   closureIsRunning, inflight, nextRun>>

\* Button.jsx:289-295
reset ==
    /\ isRunning' = FALSE
    /\ error' = Str("")
    /\ result' = Str("")
    /\ resultReady' = FALSE
    /\ speedrunRef' = ""
    /\ lastOp' = Op("reset", 0, Undefined)
    /\ UNCHANGED <<closureIsRunning, inflight, nextRun>>

\* the component re-renders after a state change: useCallback builds a new
\* executeAlgorithm that closes over the current isRunning (Button.jsx:261)
Render ==
    /\ closureIsRunning # isRunning
    /\ closureIsRunning' = isRunning
    /\ lastOp' = Op("render", 0, Undefined)
    /\ UNCHANGED <<isRunning, error, result, resultReady, speedrunRef,
                   inflight, nextRun>>

CtlInit ==
    /\ isRunning = FALSE
    /\ error = Str("")
    /\ result = Str("")
    /\ resultReady = FALSE
    /\ speedrunRef = ""
    /\ closureIsRunning = FALSE
    /\ inflight = {}
    /\ nextRun = 0
    /\ lastOp = Op("init", 0, Undefined)

CtlNext ==
    \/ \E errorMessage \in ErrorMessages :
          executeAlgorithm(errorMessage) /\ UNCHANGED <<graphVars, request>>
    \/ \E id \in RunIds, v \in ReturnValues :
          AlgorithmReturns(id, v) /\ UNCHANGED <<graphVars, request>>
    \/ \E id \in RunIds : AlgorithmThrows(id) /\ UNCHANGED <<graphVars, request>>
    \/ \E speed \in SPEED_COMMANDS : setSpeed(speed) /\ UNCHANGED <<graphVars, request>>
    \/ clearError /\ UNCHANGED <<graphVars, request>>
    \/ clearResult /\ UNCHANGED <<graphVars, request>>
    \/ reset /\ UNCHANGED <<graphVars, request>>
    \/ Render /\ UNCHANGED <<graphVars, request>>

-----------------------------------------------------------------------------
(* useGraphState *)

\* e.target.value: empty and blank texts, valid and invalid edge lists
Texts ==
    {"", " ", "\n", " \n ",
     "a b", "a b\nb c", "A B\nB C\nC A", "a b\nb a", "a a", "a #",
     "a b 1", "a b 1\nb c 2.50", "a b 1\na b 2",
     "a-b c\na b-c", "a b\n\na a",
     "a b 1\nb a 2", "a b\n\nb a", "a-b c\na b-c\na b-c",
     "a a 1", "b c\nx_1  x_1", "a b 0\nc-d b 10.05"}

\* algorithmType: the kinds of the switch and two it does not name
AlgorithmTypes ==
    {"dfs", "bfs", "dijkstra", "scc", "prims", "kruskals", "euler", "DFS"}

\* sourceNode: not given, empty, a node of some graphs, a node of none
SourceNodes == {Null, Str(""), Str("a"), Str("z")}

\* the derived part of the state
Derived ==
    [inputErrors |-> inputErrors, isValidGraph |-> isValidGraph,
     nodes |-> nodes, links |-> links, adjList |-> adjList,
     parserInvoked |-> parserInvoked]

SetDerived(d) ==
    /\ inputErrors' = d.inputErrors
    /\ isValidGraph' = d.isValidGraph
    /\ nodes' = d.nodes
    /\ links' = d.links
    /\ adjList' = d.adjList
    /\ parserInvoked' = d.parserInvoked

\* setNodes([]); setLinks([]); setAdjList({}) with isValidGraph false
Cleared(errors) ==
    [inputErrors |-> errors, isValidGraph |-> FALSE,
     nodes |-> <<>>, links |-> <<>>, adjList |-> EmptyAdjList,
     parserInvoked |-> FALSE]

\* useGraphState.js:43-50
Parsed(parsed) ==
    [inputErrors |-> <<>>, isValidGraph |-> TRUE,
     nodes |-> parsed.nodes, links |-> parsed.links,
     adjList |-> parsed.adjList, parserInvoked |-> TRUE]

\* afterValidation with the model left as it was when validation fails
afterValidation_keepModel(validation, input, directed, weighted) ==
    IF ~validation.isValid
    THEN [inputErrors |-> validation.errors, isValidGraph |-> FALSE,
          nodes |-> nodes, links |-> links, adjList |-> adjList,
          parserInvoked |-> FALSE]
    ELSE Parsed(parseGraphInput(input, directed, weighted))

\* useGraphState.js:33-50, with the input validated
afterValidation(validation, input, directed, weighted) ==
    IF ~validation.isValid
    THEN Cleared(validation.errors)
    ELSE Parsed(parseGraphInput(input, directed, weighted))

\* useGraphState.js:28-60; parseGraphInput does not throw on a text the
\* validator let through, so the catch block is not reached
parseAndValidateInput(input, directed, weighted) ==
    afterValidation(validateGraphInput(input, weighted),
                    input, directed, weighted)

\* what the effect at useGraphState.js:63-74 leaves
derive(input, directed, weighted) ==
    IF Trim(input) # ""
    THEN parseAndValidateInput(input, directed, weighted)
    ELSE Cleared(<<>>)

\* the effect runs after a render in which a dependency changed
useEffect ==
    /\ effectPending
    /\ SetDerived(derive(inputText, isDirected, isWeighted))
    /\ effectPending' = FALSE
    /\ UNCHANGED <<inputText, isDirected, isWeighted>>

\* useGraphState.js:80-82
handleInputChange(value) ==
    /\ inputText' = value
    /\ effectPending' = (effectPending \/ value # inputText)
    /\ UNCHANGED <<nodes, links, adjList, inputErrors, isValidGraph,
                   parserInvoked,
                   isDirected, isWeighted>>

\* useGraphState.js:88-90
setGraphDirected(directed) ==
    /\ isDirected' = directed
    /\ effectPending' = (effectPending \/ directed # isDirected)
    /\ UNCHANGED <<nodes, links, adjList, inputErrors, isValidGraph,
                   parserInvoked,
                   inputText, isWeighted>>

\* setGraphWeighted without the effect that follows a changed flag
setGraphWeighted_noEffect(weighted) ==
    /\ isWeighted' = weighted
    /\ UNCHANGED <<nodes, links, adjList, inputErrors, isValidGraph,
                   parserInvoked, effectPending, inputText, isDirected>>

\* useGraphState.js:96-98
setGraphWeighted(weighted) ==
    /\ isWeighted' = weighted
    /\ effectPending' = (effectPending \/ weighted # isWeighted)
    /\ UNCHANGED <<nodes, links, adjList, inputErrors, isValidGraph,
                   parserInvoked,
                   inputText, isDirected>>

\* useGraphState.js:103-110
clearGraph ==
    /\ inputText' = ""
    /\ SetDerived(Cleared(<<>>))
    /\ effectPending' = (effectPending \/ inputText # "")
    /\ UNCHANGED <<isDirected, isWeighted>>

Rejected(reason) == [canRun |-> FALSE, reason |-> reason]

\* canRunAlgorithm with the two tests of 'prims'/'kruskals' exchanged
canRunAlgorithm_weightFirst(algorithmType, sourceNode) ==
    IF ~isValidGraph \/ Len(nodes) = 0
    THEN Rejected(EMPTY_GRAPH)
    ELSE IF algorithmType \in {"dfs", "bfs", "dijkstra"}
    THEN IF ~Truthy(sourceNode)
         THEN Rejected(MISSING_SOURCE)
         ELSE IF ~\E i \in 1..Len(nodes) : Str(nodes[i].id) = sourceNode
         THEN Rejected("Source node does not exist in the graph")
         ELSE [canRun |-> TRUE]
    ELSE IF algorithmType = "scc"
    THEN IF ~isDirected
         THEN Rejected("Strongly Connected Components requires a directed graph")
         ELSE [canRun |-> TRUE]
    ELSE IF algorithmType \in {"prims", "kruskals"}
    THEN IF ~isWeighted
         THEN Rejected("MST algorithms require a weighted graph")
         ELSE IF isDirected
         THEN Rejected("MST algorithms require an undirected graph")
         ELSE [canRun |-> TRUE]
    ELSE [canRun |-> TRUE]

\* canRunAlgorithm with the test that the source is a node left out
canRunAlgorithm_anySource(algorithmType, sourceNode) ==
    IF ~isValidGraph \/ Len(nodes) = 0
    THEN Rejected(EMPTY_GRAPH)
    ELSE IF algorithmType \in {"dfs", "bfs", "dijkstra"}
    THEN IF ~Truthy(sourceNode)
         THEN Rejected(MISSING_SOURCE)
         ELSE [canRun |-> TRUE]
    ELSE IF algorithmType = "scc"
    THEN IF ~isDirected
         THEN Rejected("Strongly Connected Components requires a directed graph")
         ELSE [canRun |-> TRUE]
    ELSE IF algorithmType \in {"prims", "kruskals"}
    THEN IF isDirected
         THEN Rejected("MST algorithms require an undirected graph")
         ELSE IF ~isWeighted
         THEN Rejected("MST algorithms require a weighted graph")
         ELSE [canRun |-> TRUE]
    ELSE [canRun |-> TRUE]

\* useGraphState.js:129-167
canRunAlgorithm(algorithmType, sourceNode) ==
    IF ~isValidGraph \/ Len(nodes) = 0
    THEN Rejected(EMPTY_GRAPH)
    ELSE IF algorithmType \in {"dfs", "bfs", "dijkstra"}
    THEN IF ~Truthy(sourceNode)
         THEN Rejected(MISSING_SOURCE)
         ELSE IF ~\E i \in 1..Len(nodes) : Str(nodes[i].id) = sourceNode
         THEN Rejected("Source node does not exist in the graph")
         ELSE [canRun |-> TRUE]
    ELSE IF algorithmType = "scc"
    THEN IF ~isDirected
         THEN Rejected("Strongly Connected Components requires a directed graph")
         ELSE [canRun |-> TRUE]
    ELSE IF algorithmType \in {"prims", "kruskals"}
    THEN IF isDirected
         THEN Rejected("MST algorithms require an undirected graph")
         ELSE IF ~isWeighted
         THEN Rejected("MST algorithms require a weighted graph")
         ELSE [canRun |-> TRUE]
    ELSE [canRun |-> TRUE]

GraphInit ==
    /\ nodes = <<>>
    /\ links = <<>>
    /\ adjList = EmptyAdjList
    /\ isDirected = FALSE
    /\ isWeighted = FALSE
    /\ inputText = ""
    /\ inputErrors = <<>>
    /\ isValidGraph = FALSE
    /\ parserInvoked = FALSE
    /\ effectPending = FALSE

GraphNext ==
    \/ \E value \in Texts : handleInputChange(value) /\ UNCHANGED <<ctlVars, request>>
    \/ \E directed \in BOOLEAN : setGraphDirected(directed) /\ UNCHANGED <<ctlVars, request>>
    \/ \E weighted \in BOOLEAN : setGraphWeighted(weighted) /\ UNCHANGED <<ctlVars, request>>
    \/ clearGraph /\ UNCHANGED <<ctlVars, request>>
    \/ useEffect /\ UNCHANGED <<ctlVars, request>>

-----------------------------------------------------------------------------
(* The component that uses both hooks *)

NoRequest == [algorithmType |-> "", sourceNode |-> Null,
              check |-> Rejected("")]

\* runAlgorithm with the answer of the check ignored
runAlgorithm_unchecked(algorithmType, sourceNode, errorMessage) ==
    LET check == canRunAlgorithm(algorithmType, sourceNode) IN
    /\ request' = [algorithmType |-> algorithmType,
                   sourceNode |-> sourceNode, check |-> check]
    /\ executeAlgorithm(errorMessage)
    /\ UNCHANGED graphVars

\* the handler of the run button: the eligibility check first, its reason
\* shown as an error when it rejects, executeAlgorithm when it accepts
runAlgorithm(algorithmType, sourceNode, errorMessage) ==
    LET check == canRunAlgorithm(algorithmType, sourceNode) IN
    /\ request' = [algorithmType |-> algorithmType,
                   sourceNode |-> sourceNode, check |-> check]
    /\ IF check.canRun
       THEN executeAlgorithm(errorMessage)
       ELSE /\ lastOp' = Op("ineligible", 0, Str(check.reason))
            /\ UNCHANGED <<isRunning, error, result, resultReady,
                           speedrunRef, closureIsRunning, inflight, nextRun>>
    /\ UNCHANGED graphVars

\* the texts, kinds and sources the component is driven with
AppTexts == {"", "a b"}
AppAlgorithmTypes == {"dfs", "scc", "euler"}
AppSourceNodes == {Null, Str("a")}

AppNext ==
    \/ \E value \in AppTexts :
          handleInputChange(value) /\ UNCHANGED <<ctlVars, request>>
    \/ \E directed \in BOOLEAN :
          setGraphDirected(directed) /\ UNCHANGED <<ctlVars, request>>
    \/ useEffect /\ UNCHANGED <<ctlVars, request>>
    \/ \E k \in AppAlgorithmTypes, src \in AppSourceNodes :
          runAlgorithm(k, src, Undefined)
    \/ \E id \in RunIds :
          AlgorithmReturns(id, Obj("mst")) /\ UNCHANGED <<graphVars, request>>
    \/ \E id \in RunIds : AlgorithmThrows(id) /\ UNCHANGED <<graphVars, request>>
    \/ Render /\ UNCHANGED <<graphVars, request>>

-----------------------------------------------------------------------------
(* Specifications *)

Init == CtlInit /\ GraphInit /\ request = NoRequest

\* both hooks
Next == CtlNext \/ GraphNext

Spec == Init /\ [][Next]_vars

\* the execution controller alone
ExecSpec == Init /\ [][CtlNext]_vars

\* the graph state manager alone
GraphSpec == Init /\ [][GraphNext]_vars

\* both hooks behind the component that checks before it runs
AppSpec == Init /\ [][AppNext]_vars

\* the controller driven with one falsy and one truthy return value, one
\* custom error message and one speed command
LiveNext ==
    \/ \E errorMessage \in {Undefined, Str("DFS failed")} :
          executeAlgorithm(errorMessage) /\ UNCHANGED <<graphVars, request>>
    \/ \E id \in RunIds, v \in {Undefined, Obj("mst")} :
          AlgorithmReturns(id, v) /\ UNCHANGED <<graphVars, request>>
    \/ \E id \in RunIds : AlgorithmThrows(id) /\ UNCHANGED <<graphVars, request>>
    \/ setSpeed("skip") /\ UNCHANGED <<graphVars, request>>
    \/ reset /\ UNCHANGED <<graphVars, request>>
    \/ Render /\ UNCHANGED <<graphVars, request>>

\* the algorithm functions eventually settle and React re-renders after a
\* state change
CtlFairness ==
    /\ \A id \in 1..MaxCalls :
          WF_vars(/\ \/ AlgorithmThrows(id)
                     \/ \E v \in {Undefined, Obj("mst")} :
                           AlgorithmReturns(id, v)
                  /\ UNCHANGED <<graphVars, request>>)
    /\ WF_vars(Render /\ UNCHANGED <<graphVars, request>>)

LiveSpec == Init /\ [][LiveNext]_vars /\ CtlFairness

-----------------------------------------------------------------------------
(* Steps, as seen from the pair of states *)

\* this step is the return of run lastOp'.run
ReturnStep == lastOp'.op = "returned" /\ lastOp'.run \in RunIds

\* this step is the throw of run lastOp'.run
ThrowStep == lastOp'.op = "threw" /\ lastOp'.run \in RunIds

\* this step is an executeAlgorithm call that was turned away
RejectedStep == lastOp'.op = "rejected"

-----------------------------------------------------------------------------
(* Claims *)

\* C1: at most one algorithm function is in flight at any time, whatever the
\* interleaving of executeAlgorithm calls, completions and re-renders.
C1_AtMostOneInFlight == Cardinality(inflight) <= 1

\* C2: an executeAlgorithm call whose guard reads isRunning = true invokes
\* nothing and changes nothing: isRunning, error, result, resultReady and the
\* speed signal keep their values and the runs in flight stay in flight, so
\* their result or error is still delivered.
C2_RejectedCallChangesNothing ==
    [][/\ closureIsRunning => lastOp'.op # "invoked"
       /\ RejectedStep =>
             /\ closureIsRunning
             /\ UNCHANGED <<isRunning, error, result, resultReady,
                            speedrunRef, inflight, nextRun>>]_vars

C2_Witness ==
    /\ lastOp.op = "rejected"
    /\ inflight # {}
    /\ isRunning

C4_Original ==
    [][ThrowStep =>
          /\ error' = OrElse(RunOf(lastOp'.run).errorMessage,
                             Str(ALGORITHM_ERROR))
          /\ result' = Str("")
          /\ resultReady' = FALSE]_vars

\* C5: the step that ends a run, by return or by throw, leaves isRunning
\* false and the speed signal empty; every run in flight reaches that step,
\* and after it the hook reaches a state in which the guard of
\* executeAlgorithm lets the next call through.
C5_RunEndsIdle ==
    /\ [][ReturnStep \/ ThrowStep =>
             isRunning' = FALSE /\ speedrunRef' = ""]_vars
    /\ \A id \in 1..MaxCalls :
          (id \in RunIds) ~>
             (id \notin RunIds /\ ~isRunning /\ ~closureIsRunning)

C5_Witness ==
    /\ lastOp.op = "threw"
    /\ ~isRunning
    /\ speedrunRef = ""
    /\ inflight = {}

\* the part of the state a run's outcome is read from
Outcome(c) == <<c.error, c.result, c.resultReady>>

\* C6: setSpeed changes the speed signal only, and the error, result and
\* resultReady a run ends with do not depend on the speed signal.
C6_SetSpeedOnlySignal ==
    /\ [][lastOp'.op = "setSpeed" =>
             UNCHANGED <<isRunning, error, result, resultReady, inflight>>]_vars
    /\ [](\A s \in SPEED_COMMANDS \cup {""} :
            LET c == [Ctl EXCEPT !.speedrunRef = s] IN
            /\ \A v \in ReturnValues :
                  Outcome(onReturn(c, v)) = Outcome(onReturn(Ctl, v))
            /\ \A m \in ErrorMessages :
                  Outcome(onThrow(c, m)) = Outcome(onThrow(Ctl, m)))

C6_Witness ==
    /\ lastOp.op = "setSpeed"
    /\ speedrunRef = "skip"
    /\ inflight # {}
    /\ isRunning

\* the answers of canRunAlgorithm that reject
IsNode(sourceNode) == \E i \in 1..Len(nodes) : Str(nodes[i].id) = sourceNode
Traversals == {"dfs", "bfs", "dijkstra"}
MSTs == {"prims", "kruskals"}

\* C7: an empty or blank text fails validation with the EMPTY_GRAPH error
\* and no edges, in both weight modes; once the effect has run on it the
\* graph state holds an empty model with isValidGraph false, and
\* canRunAlgorithm rejects every kind with every source with EMPTY_GRAPH.
C7_EmptyInputRejected ==
    Trim(inputText) = "" =>
       /\ \A weighted \in BOOLEAN :
             validateGraphInput(inputText, weighted) =
                [isValid |-> FALSE,
                 errors |-> <<"Please add some edges to create a graph.">>,
                 edges |-> <<>>]
       /\ ~effectPending =>
             /\ nodes = <<>> /\ links = <<>> /\ adjList = EmptyAdjList
             /\ ~isValidGraph
             /\ \A k \in AlgorithmTypes, src \in SourceNodes :
                   canRunAlgorithm(k, src) =
                      [canRun |-> FALSE,
                       reason |-> "Please add some edges to create a graph."]

C7_Witness ==
    /\ inputText = " \n "
    /\ ~effectPending
    /\ isDirected /\ isWeighted
    /\ ~isValidGraph
    /\ ~canRunAlgorithm("euler", Str("a")).canRun

\* C8: on a valid non-empty graph canRunAlgorithm answers by the first row
\* of the eligibility table that applies: missing source, source not a
\* node, scc on an undirected graph, MST on a directed graph (weighted or
\* not), MST on an undirected unweighted graph.
C8_EligibilityTable ==
    (isValidGraph /\ Len(nodes) > 0) =>
       \A k \in AlgorithmTypes, src \in SourceNodes :
          LET r == canRunAlgorithm(k, src) IN
          /\ (k \in Traversals /\ src \in {Null, Str("")}) =>
                r = Rejected("Please specify a start node for this algorithm.")
          /\ (k \in Traversals /\ src \notin {Null, Str("")} /\ ~IsNode(src)) =>
                r = Rejected("Source node does not exist in the graph")
          /\ (k = "scc" /\ ~isDirected) =>
                r = Rejected("Strongly Connected Components requires a directed graph")
          /\ (k \in MSTs /\ isDirected) =>
                r = Rejected("MST algorithms require an undirected graph")
          /\ (k \in MSTs /\ ~isDirected /\ ~isWeighted) =>
                r = Rejected("MST algorithms require a weighted graph")

C8_Witness ==
    /\ isValidGraph /\ Len(nodes) > 0
    /\ isDirected /\ ~isWeighted
    /\ ~effectPending
    /\ canRunAlgorithm("prims", Null).reason =
          "MST algorithms require an undirected graph"
    /\ canRunAlgorithm("dfs", Str("z")).reason =
          "Source node does not exist in the graph"

\* C9: canRunAlgorithm accepts exactly when the graph is valid and
\* non-empty and no rejecting row applies: the source is a node for
\* dfs/bfs/dijkstra, the graph is directed for scc, undirected and weighted
\* for prims/kruskals; every other kind is accepted on every valid
\* non-empty graph.
C9_AcceptsExactly ==
    \A k \in AlgorithmTypes, src \in SourceNodes :
       canRunAlgorithm(k, src).canRun <=>
          /\ isValidGraph /\ Len(nodes) > 0
          /\ k \in Traversals => IsNode(src)
          /\ k = "scc" => isDirected
          /\ k \in MSTs => (~isDirected /\ isWeighted)

C9_Witness ==
    /\ inputText = "A B\nB C\nC A"
    /\ ~effectPending
    /\ ~isDirected /\ ~isWeighted
    /\ canRunAlgorithm("euler", Null).canRun
    /\ canRunAlgorithm("DFS", Str("z")).canRun
    /\ ~canRunAlgorithm("scc", Null).canRun
    /\ ~canRunAlgorithm("dfs", Str("a")).canRun

C11_NoPartialGraph ==
    /\ ~isValidGraph =>
          nodes = <<>> /\ links = <<>> /\ adjList = EmptyAdjList
    /\ (~effectPending /\ Trim(inputText) # ""
          /\ ~validateGraphInput(inputText, isWeighted).isValid) =>
          /\ ~parserInvoked
          /\ ~isValidGraph
          /\ nodes = <<>> /\ links = <<>> /\ adjList = EmptyAdjList
          /\ inputErrors # <<>>
          /\ inputErrors = validateGraphInput(inputText, isWeighted).errors
    /\ (~effectPending /\ Trim(inputText) = "") =>
          /\ ~parserInvoked /\ ~isValidGraph
          /\ nodes = <<>> /\ links = <<>> /\ adjList = EmptyAdjList

C11_Witness ==
    /\ inputText = "a b\n\na a"
    /\ ~effectPending
    /\ validateGraphInput(inputText, isWeighted).edges # <<>>
    /\ Len(inputErrors) = 1
    /\ ~isValidGraph /\ ~parserInvoked
    /\ nodes = <<>> /\ links = <<>>

\* C12 as stated: once the effect has run, isValidGraph, inputErrors and
\* the model are what validateGraphInput and parseGraphInput give for the
\* current text under the current flags.
C12_Original ==
    ~effectPending =>
       LET v == validateGraphInput(inputText, isWeighted)
           g == parseGraphInput(inputText, isDirected, isWeighted)
       IN /\ isValidGraph = v.isValid
          /\ inputErrors = v.errors
          /\ nodes = (IF v.isValid THEN g.nodes ELSE <<>>)
          /\ links = (IF v.isValid THEN g.links ELSE <<>>)
          /\ adjList = (IF v.isValid THEN g.adjList ELSE EmptyAdjList)

\* C12: once the effect has run, the state is a function of the current
\* text and flags alone, whatever calls led to them.  For a non-blank text
\* isValidGraph and inputErrors are those of validateGraphInput under the
\* current isWeighted, and the model is that of parseGraphInput under the
\* current flags when the text validates and empty when it does not; for
\* a blank text the model is empty, isValidGraph is false and inputErrors
\* is empty.
C12_DerivedFromInputs ==
    ~effectPending =>
       IF Trim(inputText) = ""
       THEN /\ ~isValidGraph /\ inputErrors = <<>>
            /\ nodes = <<>> /\ links = <<>> /\ adjList = EmptyAdjList
       ELSE LET v == validateGraphInput(inputText, isWeighted)
                g == parseGraphInput(inputText, isDirected, isWeighted)
            IN /\ isValidGraph = v.isValid
               /\ inputErrors = (IF v.isValid THEN <<>> ELSE v.errors)
               /\ nodes = (IF v.isValid THEN g.nodes ELSE <<>>)
               /\ links = (IF v.isValid THEN g.links ELSE <<>>)
               /\ adjList = (IF v.isValid THEN g.adjList ELSE EmptyAdjList)

C12_Witness ==
    /\ inputText = "a b"
    /\ isWeighted
    /\ ~effectPending
    /\ validateGraphInput(inputText, FALSE).isValid
    /\ ~isValidGraph
    /\ nodes = <<>> /\ links = <<>>
    /\ inputErrors =
          <<"Line 1: Invalid weighted edge format. Expected: \"node1 node2 weight\"">>

-----------------------------------------------------------------------------
(* The lines of a text, as validateGraphInput goes through them *)

\* the state of the loop after the first k non-blank lines
After(input, weighted, k) == validateLines(NonBlankLines(input), k, weighted)

\* the k-th non-blank line, validated on its own
LineAt(input, weighted, k) ==
    validateEdgeInput(NonBlankLines(input)[k], weighted)

\* the k-th non-blank line was pushed to edges
AcceptedAt(input, weighted, k) ==
    Len(After(input, weighted, k).edges) =
       Len(After(input, weighted, k - 1).edges) + 1

\* lines j and k are well-formed and have the same two endpoints, in the
\* same order or reversed
SameEndpoints(input, weighted, j, k) ==
    LET a == LineAt(input, weighted, j)
        b == LineAt(input, weighted, k)
    IN /\ a.isValid /\ b.isValid
       /\ \/ a.source = b.source /\ a.target = b.target
          \/ a.source = b.target /\ a.target = b.source

\* msg ends with tail
EndsWith(msg, tail) ==
    /\ Len(msg) >= Len(tail)
    /\ SubSeq(msg, Len(msg) - Len(tail) + 1, Len(msg)) = tail

\* C13: in validateGraphInput, in both weight modes, a well-formed line
\* with the endpoints of an earlier accepted line, in the same order or
\* reversed, is not added to edges and adds exactly one error, which ends
\* with 'Duplicate edge detected', whatever the weights of the two lines;
\* the earlier line's edge is in the returned edges and isValid is false.
C13_DuplicateRejected ==
    \A weighted \in BOOLEAN :
       LET n == Len(NonBlankLines(inputText))
           r == validateGraphInput(inputText, weighted)
       IN \A k \in 1..n : \A j \in 1..(k - 1) :
             (AcceptedAt(inputText, weighted, j)
                /\ SameEndpoints(inputText, weighted, j, k)) =>
                /\ ~AcceptedAt(inputText, weighted, k)
                /\ After(inputText, weighted, k).edges =
                      After(inputText, weighted, k - 1).edges
                /\ Len(After(inputText, weighted, k).errors) =
                      Len(After(inputText, weighted, k - 1).errors) + 1
                /\ EndsWith(After(inputText, weighted, k).errors[
                               Len(After(inputText, weighted, k).errors)],
                            "Duplicate edge detected")
                /\ \E i \in 1..Len(r.edges) :
                      /\ r.edges[i].source = LineAt(inputText, weighted, j).source
                      /\ r.edges[i].target = LineAt(inputText, weighted, j).target
                      /\ r.edges[i].weight = LineAt(inputText, weighted, j).weight
                /\ ~r.isValid
                /\ \E e \in 1..Len(r.errors) :
                      EndsWith(r.errors[e], "Duplicate edge detected")

C13_Witness ==
    /\ inputText = "a b 1\nb a 2"
    /\ isWeighted /\ ~isDirected
    /\ ~effectPending
    /\ inputErrors = <<"Line 2: Duplicate edge detected">>
    /\ validateGraphInput(inputText, TRUE).edges =
          <<[source |-> "a", target |-> "b",
             weight |-> [int |-> 1, frac |-> ""]]>>

\* line k has the endpoints of line j in the opposite order
Reversed(input, weighted, j, k) ==
    LET a == LineAt(input, weighted, j)
        b == LineAt(input, weighted, k)
    IN /\ a.isValid /\ b.isValid
       /\ a.source = b.target /\ a.target = b.source

\* lines j and k have the same source and the same target
SameOrdering(input, weighted, j, k) ==
    LET a == LineAt(input, weighted, j)
        b == LineAt(input, weighted, k)
    IN /\ a.isValid /\ b.isValid
       /\ a.source = b.source /\ a.target = b.target

\* C14: with isDirected true the two orderings of a pair are distinct
\* edges: a well-formed line that reverses an earlier accepted line, and
\* repeats no earlier line in its own ordering, is accepted, and once the
\* effect has run on 'a b' / 'b a' the graph is valid and holds both edges.
C14_DirectedKeepsBothOrderings ==
    (isDirected /\ ~effectPending) =>
       /\ \A k \in 1..Len(NonBlankLines(inputText)) : \A j \in 1..(k - 1) :
             (/\ AcceptedAt(inputText, isWeighted, j)
              /\ Reversed(inputText, isWeighted, j, k)
              /\ \A i \in 1..(k - 1) :
                    ~SameOrdering(inputText, isWeighted, i, k))
                => AcceptedAt(inputText, isWeighted, k)
       /\ (inputText = "a b\nb a" /\ ~isWeighted) =>
             /\ isValidGraph
             /\ inputErrors = <<>>
             /\ Len(links) = 2

\* the line is an edge of the mode from a node to itself: two equal node
\* identifiers, followed by a number in weighted mode
IsSelfLoopLine(line, weighted) ==
    LET t == Tokens(line) IN
    /\ Len(t) = (IF weighted THEN 3 ELSE 2)
    /\ weighted => IsNumberText(t[3])
    /\ t[1] = t[2]
    /\ AllIn(t[1], Letters \cup Digits \cup {"_", "-"})

RECURSIVE Pow10(_)
Pow10(n) == IF n = 0 THEN 1 ELSE 10 * Pow10(n - 1)

\* the digits written after the point of a number text
FractionDigits(tok) ==
    LET dot == IndexOfAny(tok, {"."}) IN
    IF dot = 0 THEN "" ELSE SubSeq(tok, dot + 1, Len(tok))

\* the number written as tok, times 10^Len(FractionDigits(tok))
WrittenScaled(tok) ==
    LET dot == IndexOfAny(tok, {"."}) IN
    IF dot = 0 THEN NatOf(tok)
    ELSE NatOf(SubSeq(tok, 1, dot - 1) \o SubSeq(tok, dot + 1, Len(tok)))

\* weight is the number written as tok
IsNumberWritten(weight, tok) ==
    LET fd == Len(FractionDigits(tok)) IN
    /\ DOMAIN weight = {"int", "frac"}
    /\ weight.int >= 0
    /\ Len(weight.frac) <= fd
    /\ AllIn(weight.frac, Digits)
    /\ weight.int * Pow10(fd)
          + NatOf(weight.frac) * Pow10(fd - Len(weight.frac))
       = WrittenScaled(tok)

\* C16: when validateGraphInput returns isValid true, edges holds one edge
\* per non-blank line, in line order, with the line's first two tokens as
\* source and target; both match the node-identifier pattern, they differ,
\* no two edges join the same two nodes in either order, and the weight
\* is the non-negative number written as the line's third token in
\* weighted mode and undefined in unweighted mode.
C16_ValidEdgeList ==
    \A weighted \in BOOLEAN :
       LET lines == NonBlankLines(inputText)
           r == validateGraphInput(inputText, weighted)
       IN r.isValid =>
             /\ r.errors = <<>>
             /\ Len(r.edges) = Len(lines)
             /\ \A i \in 1..Len(r.edges) :
                   LET e == r.edges[i]
                       t == Tokens(lines[i])
                   IN /\ e.source = t[1] /\ e.target = t[2]
                      /\ NODE_ID(e.source) /\ NODE_ID(e.target)
                      /\ e.source # e.target
                      /\ \A j \in 1..Len(r.edges) :
                            j # i =>
                               /\ <<r.edges[j].source, r.edges[j].target>>
                                     # <<e.source, e.target>>
                               /\ <<r.edges[j].source, r.edges[j].target>>
                                     # <<e.target, e.source>>
                      /\ IF weighted
                         THEN Len(t) = 3 /\ IsNumberWritten(e.weight, t[3])
                         ELSE Len(t) = 2 /\ e.weight = Undefined

C16_Witness ==
    /\ inputText = "a b 0\nc-d b 10.05"
    /\ isWeighted
    /\ ~effectPending
    /\ isValidGraph
    /\ links = validateGraphInput(inputText, TRUE).edges
    /\ links = <<[source |-> "a", target |-> "b",
                  weight |-> [int |-> 0, frac |-> ""]],
                 [source |-> "c-d", target |-> "b",
                  weight |-> [int |-> 10, frac |-> "05"]]>>

\* the 1-based number, among the lines of the text, of its k-th non-blank
\* line
LineNumber(input, k) ==
    LET raw == SplitLines(input) IN
    CHOOSE i \in 1..Len(raw) :
       /\ Trim(raw[i]) # ""
       /\ Cardinality({j \in 1..i : Trim(raw[j]) # ""}) = k

\* msg starts with head
StartsWith(msg, head) ==
    /\ Len(msg) >= Len(head)
    /\ SubSeq(msg, 1, Len(head)) = head

\* C17: for a non-blank text, in both weight modes, validateGraphInput
\* adds exactly one error for each non-blank line that is invalid or a
\* duplicate and none for the others, in line order, and the error of a
\* line starts with 'Line N: ' where N is the 1-based number of that line
\* in the text, blank lines counted.
C17_LineNumbers ==
    Trim(inputText) # "" =>
       \A weighted \in BOOLEAN :
          /\ validateGraphInput(inputText, weighted).errors =
                After(inputText, weighted,
                      Len(NonBlankLines(inputText))).errors
          /\ \A k \in 1..Len(NonBlankLines(inputText)) :
                LET before == After(inputText, weighted, k - 1).errors
                    after == After(inputText, weighted, k).errors
                IN IF AcceptedAt(inputText, weighted, k)
                   THEN after = before
                   ELSE /\ Len(after) = Len(before) + 1
                        /\ SubSeq(after, 1, Len(before)) = before
                        /\ StartsWith(after[Len(after)],
                                      "Line "
                                         \o ToString(LineNumber(inputText, k))
                                         \o ": ")

\* the k-th non-blank line was reported as a duplicate
DuplicateAt(input, weighted, k) ==
    /\ LineAt(input, weighted, k).isValid
    /\ ~AcceptedAt(input, weighted, k)
    /\ EndsWith(After(input, weighted, k).errors[
                   Len(After(input, weighted, k).errors)],
                "Duplicate edge detected")

\* C18: validateGraphInput reports a line as a duplicate only if an
\* earlier accepted line has the same two endpoints, in the same order or
\* reversed, for all identifiers of the pattern, those with '-' included.
C18_DuplicateOnlyIfSameEndpoints ==
    \A weighted \in BOOLEAN :
       \A k \in 1..Len(NonBlankLines(inputText)) :
          DuplicateAt(inputText, weighted, k) =>
             \E j \in 1..(k - 1) :
                /\ AcceptedAt(inputText, weighted, j)
                /\ SameEndpoints(inputText, weighted, j, k)

\* the five fields of the controller have their initial values
IdleCtl ==
    /\ ~isRunning
    /\ error = Str("") /\ result = Str("") /\ ~resultReady
    /\ speedrunRef = ""

\* C19: reset leaves the controller in its initial state, the return or
\* the throw of an algorithm function that was in flight when reset was
\* called leaves it there, and isRunning is true whenever an algorithm
\* function has not yet settled.
C19_ResetIsFinal ==
    [][/\ lastOp'.op = "reset" => IdleCtl'
       /\ (lastOp.op = "reset" /\ (ReturnStep \/ ThrowStep)) => IdleCtl'
       /\ inflight' # {} => isRunning']_vars

\* C20: in every step in which an accepted executeAlgorithm call invokes
\* its algorithm function the speed signal is '', whatever setSpeed calls
\* came before.
C20_RunStartsWithSpeedReset ==
    [][lastOp'.op = "invoked" => speedrunRef' = ""]_vars

====
